---- MODULE Spec2Model ----
(***************************************************************************)
(* Model of the finance-api ledger and of its SimpleFIN reconciliation     *)
(* (src/src/routers/sync.py, src/src/services/simplefin.py, src/src/crud.py *)
(* and src/src/models.py).                                                 *)
(*                                                                         *)
(* The ledger is the pair of tables `accounts` and `transactions`.  A sync *)
(* run is the handler sync_simplefin, cut at the points where it talks to  *)
(* the database or to the provider; everything between two such points is  *)
(* local computation and belongs to one action.                            *)
(***************************************************************************)
EXTENDS Integers, Sequences, FiniteSets, TLC

(* ------------------------------ bounds -------------------------------- *)

\* An external snapshot holds at most this many records (accounts plus the
\* transactions embedded in them).
MaxExtRecords == 3

\* The same, where the provider's data changes between the two requests of
\* a run.
MaxDriftRecords == 2

\* The same, where deletions of accounts interleave with a run.
MaxConcRecords == 3

\* The same, where accounts are created by another client during a run.
MaxWriterRecords == 3

\* The transactions of the one account of a snapshot that takes a run
\* through a full commit batch and a partial one.
MaxBatchTransactions == 12

\* The transactions of the one account of the snapshot that is merged
\* between requests to the routes.
MaxCrudTransactions == 1

\* The largest skip and the largest limit of a listing.
MaxPage == 2

\* The transactions of the one account of a snapshot over which two runs
\* race; no fewer than a commit batch.
MaxRaceTransactions == 10

(* --------------------------- value universes --------------------------- *)

AccountIds == {"A1", "A2"}
TxIds == {"T1", "T2"}
\* A missing or empty identifier: `not account_id` is true of it.
NoId == ""
\* A key that the provider's dictionary does not carry.
Missing == "missing"
\* JSON null / Python None.
Null == "None"
Epoch == "epoch"
\* Points in time, as stored in posted_date; EpochDate is the one that the
\* timestamp Epoch stands for.
EpochDate == 0
Dates == {0, 1, 2}
\* None, where a date is optional.
NoDate == -1
\* The ids of the transactions that are listed, and the dates a listing is
\* bounded by.
QueryTxIds == {"T1", "T2", "T3"}
QueryDates == {1}
\* SQL NULL in an integer column.
NullId == 0
BudgetIds == {1}
BucketIds == {1}
Balances == {100, 250}
Limits == {500, 600}
Targets == {1000, 2000}
\* A category as a request carries it: a string or null.
Categories == {"food", Null}
ExtBalances == {250}
DaysBackValues == {0, 30}
\* What the process environment gives the client's constructor.
Environments ==
    {"configured", "no_access_url", "invalid_access_url", "no_credentials"}
\* What can go wrong with a request to the provider and with its answer.
Faults ==
    {"none", "timeout", "http_error", "connection_error", "not_json",
     "not_dict", "error_key", "no_accounts_key"}
Runs == {"r1", "r2"}

\* Commit batch size of the transaction loop.
BatchSize == 10

(* ------------------------- external snapshots -------------------------- *)

\* Raw transaction dictionaries as the provider embeds them in an account.
\* The fields of a record without an id are never read, so one such record
\* stands for all of them.
RawTransactions ==
    {[id |-> NoId, posted |-> Epoch, category |-> Null]}
    \cup [id : TxIds, posted : {Epoch, Missing}, category : {Null}]
    \cup [id : TxIds, posted : {Epoch}, category : {Missing}]

TxLists(n) == UNION {[1..k -> RawTransactions] : k \in 0..n}

\* Account dictionaries.  The transactions of an account without an id are
\* dropped by get_transactions, so such an account carries none.
ExtAccounts(n) ==
    {[id |-> NoId, balance |-> b, transactions |-> <<>>] : b \in ExtBalances}
    \cup [id : AccountIds, balance : ExtBalances, transactions : TxLists(n)]

RECURSIVE SnapshotsOf(_)
SnapshotsOf(budget) ==
    IF budget <= 0 THEN {<<>>}
    ELSE {<<>>} \cup
         UNION {{<<a>> \o rest :
                    rest \in SnapshotsOf(budget - 1 - Len(a.transactions))} :
                a \in ExtAccounts(budget - 1)}

Snapshots == SnapshotsOf(MaxExtRecords)

\* Snapshots of one account with n well-formed transactions of distinct ids.
RaceTxIds ==
    <<"T1", "T2", "T3", "T4", "T5", "T6", "T7", "T8", "T9", "T10", "T11",
      "T12", "T13", "T14">>

RaceSnapshot(n) ==
    <<[id |-> "A1", balance |-> 250,
       transactions |-> [k \in 1..n |->
           [id |-> RaceTxIds[k], posted |-> Epoch, category |-> Null]]]>>

RaceSnapshots == {RaceSnapshot(MaxRaceTransactions)}

\* Snapshots of account A1 with n transactions, well-formed and of distinct
\* ids but for record `bad`, which lacks `posted`, and record `dup`, which
\* repeats the id of the record before it (0: no such record); with `extra`
\* the snapshot also holds account A2, which has no transaction.
BatchSnapshot(n, bad, dup, extra) ==
    <<[id |-> "A1", balance |-> 250,
       transactions |-> [k \in 1..n |->
           [id |-> IF k = dup THEN RaceTxIds[k - 1] ELSE RaceTxIds[k],
            posted |-> IF k = bad THEN Missing ELSE Epoch,
            category |-> Null]]]>>
    \o (IF extra
        THEN <<[id |-> "A2", balance |-> 250, transactions |-> <<>>]>>
        ELSE <<>>)

BatchSnapshots ==
    UNION {{BatchSnapshot(n, bad, dup, extra) :
               bad \in 0..n, dup \in {d \in {0, n} : d # 1},
               extra \in BOOLEAN} :
           n \in 0..MaxBatchTransactions}

\* The snapshot that the runs between the requests of SpecCrud merge.
CrudSnapshots == {RaceSnapshot(MaxCrudTransactions)}

(* ------------------------------- state --------------------------------- *)

VARIABLES
    accounts,       \* table accounts: id -> row
    transactions,   \* table transactions: id -> row
    budgets,        \* table budget_categories: id -> row
    buckets,        \* table savings_buckets: id -> row
    reply,          \* the response to the last request other than a sync
    ext,            \* what the provider currently answers to GET /accounts
    sync,           \* per run: the locals of sync_simplefin and its session
    lastClean       \* the last event was the return of a successful run
                    \* that saw one unchanged snapshot

vars == <<accounts, transactions, budgets, buckets, reply, ext, sync,
          lastClean>>

\* A table without rows.
EmptyTable == [k \in {} |-> k]

NoStore == [accounts |-> EmptyTable, transactions |-> EmptyTable]

IdleRun ==
    [pc |-> "idle",
     days_back |-> 0,
     ext_accounts |-> <<>>,
     existing_account_ids |-> {},
     existing_accounts |-> 0,
     new_account_count |-> 0,
     existing_tx_ids |-> {},
     ext_transactions |-> <<>>,
     i |-> 0,
     new_transaction_count |-> 0,
     skipped_transactions |-> 0,
     session |-> <<>>,
     status_code |-> 0,
     total_accounts |-> 0,
     total_transactions |-> 0,
     \* history of the run, read by the properties only
     before |-> NoStore,
     new_account_ids |-> {},
     skipped_at |-> {},
     staged_at |-> {},
     raised_at |-> {},
     conflict_at |-> {},
     batch_written |-> {},
     failed_at |-> "none",
     repeat |-> FALSE,
     ext_changed |-> FALSE]

\* The response to a request: the route that answered, the entity and id it
\* was about, the status code and, for a listing, the ids listed.  For the
\* properties it also keeps the parameters of a listing or the update of a
\* PUT, and the transactions that referred to a row when a DELETE removed
\* it.
Reply(route, entity, id, status) ==
    [route |-> route, entity |-> entity, id |-> id, status |-> status,
     body |-> <<>>, query |-> <<>>, referred |-> {}]

\* No request has been answered.
NoReply == Reply("none", "none", NoId, 0)

\* The tables are empty after init_db; the provider holds some snapshot.
InitWith(snapshots) ==
    /\ accounts = EmptyTable
    /\ transactions = EmptyTable
    /\ budgets = EmptyTable
    /\ buckets = EmptyTable
    /\ reply = NoReply
    /\ ext \in snapshots
    /\ sync = [r \in Runs |-> IdleRun]
    /\ lastClean = FALSE

Init == InitWith(Snapshots)

(* ------------------------------ the store ------------------------------ *)

Store == [accounts |-> accounts, transactions |-> transactions]

\* A row of the transactions table (models.py 23-26): the owning account,
\* the posted timestamp and the budget category, NullId for none.
TransactionRow(account_id, posted_date, category_id) ==
    [account_id |-> account_id,
     posted_date |-> posted_date,
     category_id |-> category_id]

\* The rows of `table` together with `rows` (a sequence of <<key, row>>).
RECURSIVE Inserted(_, _)
Inserted(table, rows) ==
    IF rows = <<>> THEN table
    ELSE LET k == Head(rows)[1]
             t == Inserted(table, Tail(rows))
         IN [x \in DOMAIN t \cup {k} |-> IF x = k THEN Head(rows)[2] ELSE t[x]]

Keys(rows) == {rows[n][1] : n \in DOMAIN rows}

\* Primary key of accounts and of transactions (models.py, primary_key=True):
\* an INSERT of a key that is in the table, or twice in one flush, fails.
PrimaryKeyViolated(table, rows) ==
    \/ \E n \in DOMAIN rows : rows[n][1] \in DOMAIN table
    \/ \E m, n \in DOMAIN rows : m # n /\ rows[m][1] = rows[n][1]

\* Foreign key transactions.account_id -> accounts.id.
ForeignKeyViolated(accountsTable, rows) ==
    \E n \in DOMAIN rows : rows[n][2].account_id \notin DOMAIN accountsTable

\* Variant: a commit that fails keeps the rows that met no conflict.
CommitAccountsPartial(table, rows) ==
    IF PrimaryKeyViolated(table, rows)
    THEN [ok |-> FALSE,
          table |-> Inserted(table,
                       SelectSeq(rows, LAMBDA row : row[1] \notin DOMAIN table))]
    ELSE [ok |-> TRUE, table |-> Inserted(table, rows)]

\* db.commit() with pending Account objects: the flush INSERTs them all in
\* one database transaction, or raises IntegrityError and writes nothing.
CommitAccounts(table, rows) ==
    IF PrimaryKeyViolated(table, rows)
    THEN [ok |-> FALSE, table |-> table]
    ELSE [ok |-> TRUE, table |-> Inserted(table, rows)]

\* Variant: a store that does not enforce the foreign key.
CommitTransactionsNoForeignKey(accountsTable, table, rows) ==
    IF PrimaryKeyViolated(table, rows)
    THEN [ok |-> FALSE, table |-> table]
    ELSE [ok |-> TRUE, table |-> Inserted(table, rows)]

\* db.commit() with pending Transaction objects.
CommitTransactions(accountsTable, table, rows) ==
    IF PrimaryKeyViolated(table, rows) \/ ForeignKeyViolated(accountsTable, rows)
    THEN [ok |-> FALSE, table |-> table]
    ELSE [ok |-> TRUE, table |-> Inserted(table, rows)]

(* ------------------------- the provider client ------------------------- *)

\* datetime.fromtimestamp(tx['posted'])
FromTimestamp(posted) == IF posted = Epoch THEN EpochDate ELSE posted

\* dict.get(key, default)
Get(value, default) == IF value = Missing THEN default ELSE value

\* SimpleFinClient.get_transactions, the flattening: every embedded
\* transaction stamped with the id of its account; accounts without an id
\* are left out.
RECURSIVE FlattenTransactions(_)
FlattenTransactions(accs) ==
    IF accs = <<>> THEN <<>>
    ELSE LET account == Head(accs)
             stamped == [k \in DOMAIN account.transactions |->
                            [id |-> account.transactions[k].id,
                             account_id |-> account.id,
                             posted |-> account.transactions[k].posted,
                             category |-> account.transactions[k].category]]
         IN (IF account.id = NoId \/ account.transactions = <<>>
             THEN <<>> ELSE stamped)
            \o FlattenTransactions(Tail(accs))

\* SimpleFinClient.__init__: without an access URL, with one that does not
\* parse or without credentials it raises ValueError, which the handler at
\* the end of the constructor lets through.
ClientInit(environment) ==
    IF environment = "configured" THEN "none" ELSE "ValueError"

\* SimpleFinClient._make_request and the tests get_accounts makes on the
\* answer: every fault is raised as SimpleFinError.
RequestError(fault) == IF fault = "none" THEN "none" ELSE "SimpleFinError"

\* SimpleFinClient.get_transactions: a days_back below 1 is a ValueError,
\* rewrapped as SimpleFinError; so is a failure of the request.
GetTransactions(days_back, requestOk, snapshot) ==
    IF days_back < 1 \/ ~requestOk
    THEN [error |-> "SimpleFinError", value |-> <<>>]
    ELSE [error |-> "none", value |-> FlattenTransactions(snapshot)]

\* Variant: every exception is answered as an internal error.
StatusForAlwaysInternal(exception) == 500

\* The except clauses of sync_simplefin: SimpleFinError answers 400, any
\* other exception 500.
StatusFor(exception) == IF exception = "SimpleFinError" THEN 400 ELSE 500

(* --------------------- sync_simplefin: the accounts -------------------- *)

\* Variant: the account is counted before the test that skips it.
AccountStepCountsSkipped(st, account, existing_account_ids) ==
    IF account.id = NoId THEN st
    ELSE IF account.id \in existing_account_ids
    THEN [st EXCEPT !.count = @ + 1]
    ELSE [staged |-> Append(st.staged,
                            <<account.id, [balance |-> account.balance]>>),
          count |-> st.count + 1]

\* One pass of the loop over the fetched accounts (sync.py 44-69): an
\* account without an id or with an id of the snapshot of the table is
\* skipped, any other one is added to the session and counted.
AccountStep(st, account, existing_account_ids) ==
    IF account.id = NoId THEN st
    ELSE IF account.id \in existing_account_ids THEN st
    ELSE [staged |-> Append(st.staged,
                            <<account.id, [balance |-> account.balance]>>),
          count |-> st.count + 1]

RECURSIVE AccountsLoop(_, _, _)
AccountsLoop(st, accs, existing_account_ids) ==
    IF accs = <<>> THEN st
    ELSE AccountsLoop(AccountStep(st, Head(accs), existing_account_ids),
                      Tail(accs), existing_account_ids)

\* Variant: the overwrite-on-conflict policy, an account of the table takes
\* the fields the provider carries for it.
AccountsPhaseOverwrite(table, existing_account_ids, accs) ==
    LET loop == AccountsLoop([staged |-> <<>>, count |-> 0], accs,
                             existing_account_ids)
        known == {n \in DOMAIN accs : accs[n].id \in DOMAIN table}
        merged == [a \in DOMAIN table |->
                     IF \E n \in known : accs[n].id = a
                     THEN [balance |->
                             accs[CHOOSE n \in known : accs[n].id = a].balance]
                     ELSE table[a]]
        commit == CommitAccounts(merged, loop.staged)
    IN [ok |-> commit.ok,
        table |-> IF commit.ok THEN commit.table ELSE table,
        count |-> loop.count,
        ids |-> IF commit.ok THEN Keys(loop.staged) ELSE {}]

\* Variant: the staged accounts are counted, their commit is put off.
AccountsPhaseDeferred(table, existing_account_ids, accs) ==
    LET loop == AccountsLoop([staged |-> <<>>, count |-> 0], accs,
                             existing_account_ids)
    IN [ok |-> TRUE, table |-> table, count |-> loop.count,
        ids |-> Keys(loop.staged)]

\* The loop and the commit that follows it (sync.py 44-74): what the
\* accounts phase does to the table, and what it counts.
AccountsPhase(table, existing_account_ids, accs) ==
    LET loop == AccountsLoop([staged |-> <<>>, count |-> 0], accs,
                             existing_account_ids)
        commit == CommitAccounts(table, loop.staged)
    IN IF loop.count > 0
       THEN [ok |-> commit.ok, table |-> commit.table, count |-> loop.count,
             ids |-> IF commit.ok THEN Keys(loop.staged) ELSE {}]
       ELSE [ok |-> TRUE, table |-> table, count |-> loop.count, ids |-> {}]

(* ------------------- sync_simplefin: the transactions ------------------ *)

\* Variant: the test of the owning account is left out.
SkipsTransactionAnyAccount(s, tx) ==
    \/ tx.id = NoId
    \/ tx.account_id = NoId
    \/ tx.id \in s.existing_tx_ids

\* The four skips at the head of the loop body (sync.py 89-109).
SkipsTransaction(s, tx) ==
    \/ tx.id = NoId
    \/ tx.account_id = NoId
    \/ tx.id \in s.existing_tx_ids
    \/ tx.account_id \notin s.existing_account_ids

\* Building tx_data and Transaction(**tx_data) raises (sync.py 113-126):
\* tx['posted'] is a KeyError without the key, and `category` of the model
\* is a relationship, which takes None but no string.
ConstructionRaises(tx) ==
    \/ tx.posted = Missing
    \/ Get(tx.category, "Uncategorized") # Null

\* Variant: the record that raised is not counted.
RecordErrorUncounted(s, n) ==
    [s EXCEPT !.session = <<>>,
              !.skipped_at = @ \cup {n},
              !.raised_at = @ \cup {n}]

\* The exception handler of the loop body (sync.py 136-140): db.rollback()
\* empties the session, the record is counted as skipped.
RecordError(s, n) ==
    [s EXCEPT !.session = <<>>,
              !.skipped_transactions = @ + 1,
              !.skipped_at = @ \cup {n},
              !.raised_at = @ \cup {n}]

\* One pass of the loop over the fetched transactions (sync.py 85-140) for
\* record n of the list: the run's locals and the table afterwards.
ProcessTransaction(s, n, accountsTable, table) ==
    LET tx == s.ext_transactions[n]
        next == [s EXCEPT !.i = n + 1]
    IN IF SkipsTransaction(s, tx)
       THEN [run |-> [next EXCEPT !.skipped_transactions = @ + 1,
                                  !.skipped_at = @ \cup {n}],
             table |-> table]
       ELSE IF ConstructionRaises(tx)
       THEN [run |-> RecordError(next, n), table |-> table]
       ELSE LET added == [next EXCEPT
                            !.session = Append(@, <<tx.id,
                                TransactionRow(tx.account_id,
                                    FromTimestamp(tx.posted), NullId)>>),
                            !.new_transaction_count = @ + 1,
                            !.staged_at = @ \cup {n}]
                commit == CommitTransactions(accountsTable, table,
                                             added.session)
            IN IF added.new_transaction_count % BatchSize # 0
               THEN [run |-> added, table |-> table]
               ELSE IF commit.ok
               THEN [run |-> [added EXCEPT
                                !.session = <<>>,
                                !.batch_written = @ \cup Keys(added.session)],
                     table |-> commit.table]
               ELSE [run |-> [RecordError(added, n) EXCEPT
                                !.conflict_at = @ \cup {n}],
                     table |-> table]

\* An exception that leaves the handler (sync.py 159-172): db.rollback()
\* and the error response.
Fail(s, exception, where) ==
    [s EXCEPT !.pc = "done", !.session = <<>>,
              !.status_code = StatusFor(exception),
              !.failed_at = where]

(* ------------------------- sync_simplefin: steps ------------------------ *)

Quiet == \A r \in Runs : sync[r].pc = "idle"

\* sync.py 28-40: the client is built, the accounts are fetched and the
\* ids of the accounts table are read.
SyncFetchAccounts(r) ==
    /\ sync[r].pc = "idle"
    /\ \E days_back \in DaysBackValues, environment \in Environments :
          LET s == [IdleRun EXCEPT !.days_back = days_back,
                                   !.before = Store,
                                   !.repeat = lastClean]
          IN IF ClientInit(environment) # "none"
             THEN sync' = [sync EXCEPT ![r] =
                              Fail(s, ClientInit(environment), "client")]
             ELSE \E fault \in Faults :
                     sync' = [sync EXCEPT ![r] =
                        IF RequestError(fault) # "none"
                        THEN Fail(s, RequestError(fault), "get_accounts")
                        ELSE [s EXCEPT !.pc = "accounts",
                                       !.ext_accounts = ext,
                                       !.existing_account_ids =
                                           DOMAIN accounts,
                                       !.existing_accounts =
                                           Cardinality(DOMAIN accounts)]]
    /\ lastClean' = FALSE
    /\ UNCHANGED <<accounts, transactions, ext>>

\* sync.py 42-74: the loop over the accounts and their commit.
SyncAccountsPhase(r) ==
    /\ sync[r].pc = "accounts"
    /\ LET s == sync[r]
           phase == AccountsPhase(accounts, s.existing_account_ids,
                                  s.ext_accounts)
       IN /\ accounts' = phase.table
          /\ sync' = [sync EXCEPT ![r] =
                IF ~phase.ok
                THEN Fail(s, "IntegrityError", "accounts_commit")
                ELSE [s EXCEPT !.pc = "transactions",
                               !.ext_accounts = <<>>,
                               !.new_account_count = phase.count,
                               !.new_account_ids = phase.ids]]
    /\ UNCHANGED <<transactions, ext, lastClean>>

\* sync.py 76-83: the ids of the transactions table are read and the
\* transactions are fetched, by a second request to the provider.
SyncFetchTransactions(r) ==
    /\ sync[r].pc = "transactions"
    /\ \E fault \in Faults :
          LET s == [sync[r] EXCEPT !.existing_tx_ids = DOMAIN transactions]
              got == GetTransactions(s.days_back,
                                     RequestError(fault) = "none", ext)
          IN sync' = [sync EXCEPT ![r] =
                IF got.error # "none"
                THEN Fail(s, got.error, "get_transactions")
                ELSE [s EXCEPT !.pc = "loop",
                               !.ext_transactions = got.value,
                               !.i = 1]]
    /\ UNCHANGED <<accounts, transactions, ext, lastClean>>

\* sync.py 85-140: one pass of the loop over the transactions.
SyncProcessTransaction(r) ==
    /\ sync[r].pc = "loop"
    /\ sync[r].i <= Len(sync[r].ext_transactions)
    /\ LET step == ProcessTransaction(sync[r], sync[r].i, accounts,
                                      transactions)
       IN /\ sync' = [sync EXCEPT ![r] = step.run]
          /\ transactions' = step.table
    /\ UNCHANGED <<accounts, ext, lastClean>>

\* Variant: a final commit that fails takes the transactions table back to
\* what it was when the run began.
SyncFinishUndoesRun(r) ==
    /\ sync[r].pc = "loop"
    /\ sync[r].i > Len(sync[r].ext_transactions)
    /\ LET s == sync[r]
           commit == IF s.new_transaction_count > 0
                     THEN CommitTransactions(accounts, transactions, s.session)
                     ELSE [ok |-> TRUE, table |-> transactions]
       IN /\ transactions' = IF commit.ok THEN commit.table
                             ELSE s.before.transactions
          /\ sync' = [sync EXCEPT ![r] =
                IF ~commit.ok
                THEN Fail(s, "IntegrityError", "final_commit")
                ELSE [s EXCEPT
                        !.pc = "done",
                        !.session = <<>>,
                        !.status_code = 200,
                        !.total_accounts =
                            s.existing_accounts + s.new_account_count,
                        !.total_transactions =
                            Cardinality(s.existing_tx_ids)
                            + s.new_transaction_count]]
    /\ UNCHANGED <<accounts, ext, lastClean>>

\* sync.py 142-157: the final commit and the report.
SyncFinish(r) ==
    /\ sync[r].pc = "loop"
    /\ sync[r].i > Len(sync[r].ext_transactions)
    /\ LET s == sync[r]
           commit == IF s.new_transaction_count > 0
                     THEN CommitTransactions(accounts, transactions, s.session)
                     ELSE [ok |-> TRUE, table |-> transactions]
       IN /\ transactions' = commit.table
          /\ sync' = [sync EXCEPT ![r] =
                IF ~commit.ok
                THEN Fail(s, "IntegrityError", "final_commit")
                ELSE [s EXCEPT
                        !.pc = "done",
                        !.session = <<>>,
                        !.status_code = 200,
                        !.total_accounts =
                            s.existing_accounts + s.new_account_count,
                        !.total_transactions =
                            Cardinality(s.existing_tx_ids)
                            + s.new_transaction_count]]
    /\ UNCHANGED <<accounts, ext, lastClean>>

\* The response is sent and get_db closes the session.
SyncReturn(r) ==
    /\ sync[r].pc = "done"
    /\ sync' = [sync EXCEPT ![r] = IdleRun]
    /\ lastClean' = (sync[r].status_code = 200 /\ ~sync[r].ext_changed)
    /\ UNCHANGED <<accounts, transactions, ext>>

(* ---------------------------- other writers ---------------------------- *)

\* POST /accounts/ (routers/accounts.py 10-16 and crud.create_account) with
\* an id that the table lacks; with an id of the table the route answers
\* 400 and writes nothing.
CreateAccount(id, balance) ==
    /\ id \notin DOMAIN accounts
    /\ accounts' = Inserted(accounts, <<<<id, [balance |-> balance]>>>>)
    /\ lastClean' = FALSE
    /\ UNCHANGED <<transactions, ext, sync>>

\* POST /transactions/ (routers/transactions.py 12-21 and
\* crud.create_transaction) for an account of the table and an id that the
\* table lacks; for another account the route answers 400, and for an id
\* of the table the commit fails, and nothing is written.
CreateTransaction(id, account_id, posted_date) ==
    /\ account_id \in DOMAIN accounts
    /\ LET commit == CommitTransactions(accounts, transactions,
                          <<<<id, TransactionRow(account_id, posted_date,
                                                 NullId)>>>>)
       IN commit.ok /\ transactions' = commit.table
    /\ lastClean' = FALSE
    /\ UNCHANGED <<accounts, ext, sync>>

\* PUT /accounts/{id} with a balance (routers/accounts.py 35-45 and
\* crud.update_account) on an account of the table.
UpdateAccount(id, balance) ==
    /\ id \in DOMAIN accounts
    /\ accounts' = [accounts EXCEPT ![id].balance = balance]
    /\ lastClean' = FALSE
    /\ UNCHANGED <<transactions, ext, sync>>

\* Variant: the transactions of the account stay.
DeleteAccountNoCascade(id) ==
    /\ id \in DOMAIN accounts
    /\ accounts' = [a \in DOMAIN accounts \ {id} |-> accounts[a]]
    /\ lastClean' = FALSE
    /\ UNCHANGED <<transactions, ext, sync>>

\* DELETE /accounts/{id} (routers/accounts.py 47-54 and crud.delete_account)
\* on an account of the table: the relationship Account.transactions
\* cascades the delete to the transactions of the account.
DeleteAccount(id) ==
    /\ id \in DOMAIN accounts
    /\ accounts' = [a \in DOMAIN accounts \ {id} |-> accounts[a]]
    /\ transactions' =
          [t \in {u \in DOMAIN transactions :
                     transactions[u].account_id # id} |-> transactions[t]]
    /\ lastClean' = FALSE
    /\ UNCHANGED <<ext, sync>>

\* crud.update_transaction raises (crud.py 89-92): `category` of the model
\* is a relationship, and setattr gives it None but no string; the commit
\* fails on an account_id that the accounts table lacks, and accepts NULL,
\* since the column is nullable.
UpdateRaises(update) ==
    \/ update.category \notin {Missing, Null}
    \/ update.account_id \notin DOMAIN accounts \cup {Missing, Null}

\* The loop of setattr over update.dict(exclude_unset=True) (crud.py
\* 89-91): a field that the update carries takes its value, Missing and
\* NoDate stand for a field that it does not carry; a category of None
\* empties the relationship, and with it category_id.
UpdatedTransaction(row, update) ==
    TransactionRow(
        IF update.account_id = Missing THEN row.account_id
        ELSE update.account_id,
        IF update.posted_date = NoDate THEN row.posted_date
        ELSE update.posted_date,
        IF update.category = Null THEN NullId ELSE row.category_id)

\* crud.update_transaction (crud.py 81-94) on a transaction of the table,
\* with an update that does not raise.
UpdateTransaction(id, update) ==
    /\ id \in DOMAIN transactions
    /\ ~UpdateRaises(update)
    /\ transactions' = [transactions EXCEPT
                           ![id] = UpdatedTransaction(@, update)]
    /\ lastClean' = FALSE
    /\ UNCHANGED <<accounts, ext, sync>>

\* crud.delete_transaction (crud.py 96-102) on a transaction of the table.
DeleteTransaction(id) ==
    /\ id \in DOMAIN transactions
    /\ transactions' = [t \in DOMAIN transactions \ {id} |-> transactions[t]]
    /\ lastClean' = FALSE
    /\ UNCHANGED <<accounts, ext, sync>>

\* A Transaction built with a category_id and committed through the ORM
\* (tests/test_database.py 103-112); no route sets category_id.  Both
\* foreign keys are enforced.
AddCategorizedTransaction(id, account_id, category_id) ==
    /\ category_id \in DOMAIN budgets
    /\ LET commit == CommitTransactions(accounts, transactions,
                          <<<<id, TransactionRow(account_id, EpochDate,
                                                 category_id)>>>>)
       IN commit.ok /\ transactions' = commit.table
    /\ lastClean' = FALSE
    /\ UNCHANGED <<accounts, ext, sync>>

\* crud.create_budget (crud.py 105-114): the row takes an id that the table
\* does not hold.
CreateBudget(id, monthly_limit) ==
    /\ id \notin DOMAIN budgets
    /\ budgets' = Inserted(budgets,
                           <<<<id, [monthly_limit |-> monthly_limit]>>>>)

\* crud.update_budget (crud.py 131-144) on a category of the table.
UpdateBudget(id, monthly_limit) ==
    /\ id \in DOMAIN budgets
    /\ budgets' = [budgets EXCEPT ![id].monthly_limit = monthly_limit]

\* Variant: the transactions of the category go with it.
DeleteBudgetCascading(id) ==
    /\ id \in DOMAIN budgets
    /\ budgets' = [b \in DOMAIN budgets \ {id} |-> budgets[b]]
    /\ transactions' =
          [t \in {u \in DOMAIN transactions :
                     transactions[u].category_id # id} |-> transactions[t]]

\* crud.delete_budget (crud.py 146-155) on a category of the table: the
\* relationship BudgetCategory.transactions has no delete cascade, so the
\* category_id of its transactions is set to NULL (models.py 25, 45).
DeleteBudget(id) ==
    /\ id \in DOMAIN budgets
    /\ budgets' = [b \in DOMAIN budgets \ {id} |-> budgets[b]]
    /\ transactions' =
          [t \in DOMAIN transactions |->
              IF transactions[t].category_id = id
              THEN [transactions[t] EXCEPT !.category_id = NullId]
              ELSE transactions[t]]

\* crud.create_savings_bucket (crud.py 158-167).
CreateSavingsBucket(id, target_amount) ==
    /\ id \notin DOMAIN buckets
    /\ buckets' = Inserted(buckets,
                           <<<<id, [target_amount |-> target_amount]>>>>)

\* crud.update_savings_bucket (crud.py 184-200) on a bucket of the table.
UpdateSavingsBucket(id, target_amount) ==
    /\ id \in DOMAIN buckets
    /\ buckets' = [buckets EXCEPT ![id].target_amount = target_amount]

\* Variant: the bucket stays.
DeleteSavingsBucketKeeps(id) ==
    /\ id \in DOMAIN buckets
    /\ buckets' = buckets

\* crud.delete_savings_bucket (crud.py 202-208) on a bucket of the table.
DeleteSavingsBucket(id) ==
    /\ id \in DOMAIN buckets
    /\ buckets' = [b \in DOMAIN buckets \ {id} |-> buckets[b]]

(* ------------------------------ the routes ---------------------------- *)

\* A request that is answered without a write.
Answered(route, entity, id, status) ==
    /\ reply' = Reply(route, entity, id, status)
    /\ UNCHANGED <<accounts, transactions, budgets, buckets, ext, sync,
                   lastClean>>

\* Variant: an account of the table is overwritten.
AccountsPostOverwrites(id, balance) ==
    /\ accounts' = [a \in DOMAIN accounts \cup {id} |->
                       IF a = id THEN [balance |-> balance] ELSE accounts[a]]
    /\ reply' = Reply("create", "account", id, 201)
    /\ lastClean' = FALSE
    /\ UNCHANGED <<transactions, budgets, buckets, ext, sync>>

\* POST /accounts/ (routers/accounts.py 10-16).
AccountsPost(id, balance) ==
    IF id \in DOMAIN accounts
    THEN Answered("create", "account", id, 400)
    ELSE /\ CreateAccount(id, balance)
         /\ reply' = Reply("create", "account", id, 201)
         /\ UNCHANGED <<budgets, buckets>>

\* GET /accounts/{account_id} (routers/accounts.py 27-33).
AccountsGet(id) ==
    Answered("read", "account", id,
             IF id \in DOMAIN accounts THEN 200 ELSE 404)

\* PUT /accounts/{account_id} (routers/accounts.py 35-45).
AccountsPut(id, balance) ==
    IF id \notin DOMAIN accounts
    THEN Answered("update", "account", id, 404)
    ELSE /\ UpdateAccount(id, balance)
         /\ reply' = [Reply("update", "account", id, 200) EXCEPT
                          !.query = [balance |-> balance]]
         /\ UNCHANGED <<budgets, buckets>>

\* DELETE /accounts/{account_id} (routers/accounts.py 47-54).
AccountsDelete(id) ==
    IF id \notin DOMAIN accounts
    THEN Answered("delete", "account", id, 404)
    ELSE /\ DeleteAccount(id)
         /\ reply' = [Reply("delete", "account", id, 204) EXCEPT
                          !.referred = {t \in DOMAIN transactions :
                                          transactions[t].account_id = id}]
         /\ UNCHANGED <<budgets, buckets>>

\* POST /transactions/ (routers/transactions.py 12-21): 400 for an account
\* that the table lacks; Transaction(**transaction.dict()) raises for a
\* category that is a string, and the commit for an id of the table, both
\* unhandled.
TransactionsPost(id, account_id, posted_date, category) ==
    IF account_id \notin DOMAIN accounts
    THEN Answered("create", "transaction", id, 400)
    ELSE IF category # Null \/ id \in DOMAIN transactions
    THEN Answered("create", "transaction", id, 500)
    ELSE /\ CreateTransaction(id, account_id, posted_date)
         /\ reply' = Reply("create", "transaction", id, 201)
         /\ UNCHANGED <<budgets, buckets>>

\* `if value:` of Python for an optional string: None and the empty string
\* are false.
Truthy(value) == value \notin {Null, NoId}

\* `if value:` of Python for an optional datetime: every datetime is true.
TruthyDate(value) == value # NoDate

\* The sequences that hold each member of `ids` once.
Arrangements(ids) ==
    {p \in [1..Cardinality(ids) -> ids] :
        \A m, n \in DOMAIN p : m # n => p[m] # p[n]}

\* query.offset(skip).limit(limit) on an ordered result.
Page(rows, skip, limit) ==
    [k \in 1..(IF Len(rows) - skip < limit
               THEN (IF Len(rows) < skip THEN 0 ELSE Len(rows) - skip)
               ELSE limit) |-> rows[skip + k]]

\* Variant: the oldest transaction first.
OrderedQueryAscending(table, account_id, start_date, end_date) ==
    LET kept == {t \in DOMAIN table :
                   /\ Truthy(account_id) => table[t].account_id = account_id
                   /\ TruthyDate(start_date)
                      => table[t].posted_date >= start_date
                   /\ TruthyDate(end_date)
                      => table[t].posted_date <= end_date}
    IN {p \in Arrangements(kept) :
           \A m, n \in DOMAIN p :
               m < n => table[p[m]].posted_date <= table[p[n]].posted_date}

\* crud.get_transactions up to the ordering (crud.py 64-75): each filter is
\* applied if its parameter is true, and the rows are ordered by
\* posted_date, the latest first.  Rows of one posted_date come in an
\* order that the database chooses, so the result is one of a set.
OrderedQuery(table, account_id, start_date, end_date) ==
    LET kept == {t \in DOMAIN table :
                   /\ Truthy(account_id) => table[t].account_id = account_id
                   /\ TruthyDate(start_date)
                      => table[t].posted_date >= start_date
                   /\ TruthyDate(end_date)
                      => table[t].posted_date <= end_date}
    IN {p \in Arrangements(kept) :
           \A m, n \in DOMAIN p :
               m < n => table[p[m]].posted_date >= table[p[n]].posted_date}

\* GET /transactions/ (routers/transactions.py 23-40 and
\* crud.get_transactions).
TransactionsList(account_id, start_date, end_date, skip, limit) ==
    /\ \E rows \in OrderedQuery(transactions, account_id, start_date,
                                 end_date) :
          reply' = [Reply("list", "transaction", NoId, 200) EXCEPT
                       !.body = Page(rows, skip, limit),
                       !.query = [account_id |-> account_id,
                                  start_date |-> start_date,
                                  end_date |-> end_date,
                                  skip |-> skip, limit |-> limit]]
    /\ UNCHANGED <<accounts, transactions, budgets, buckets, ext, sync,
                   lastClean>>

\* GET /transactions/{transaction_id} (routers/transactions.py 42-48).
TransactionsGet(id) ==
    Answered("read", "transaction", id,
             IF id \in DOMAIN transactions THEN 200 ELSE 404)

\* PUT /transactions/{transaction_id} (routers/transactions.py 50-64).
\* An update that raises is answered 500 and nothing is written; an
\* account_id of null is committed, and then the response model, whose
\* account_id is a str, refuses the row.
TransactionsPut(id, update) ==
    IF id \notin DOMAIN transactions
    THEN Answered("update", "transaction", id, 404)
    ELSE IF UpdateRaises(update)
    THEN /\ reply' = [Reply("update", "transaction", id, 500) EXCEPT
                          !.query = update]
         /\ UNCHANGED <<accounts, transactions, budgets, buckets, ext, sync,
                        lastClean>>
    ELSE /\ UpdateTransaction(id, update)
         /\ reply' = [Reply("update", "transaction", id,
                            IF transactions'[id].account_id = Null
                            THEN 500 ELSE 200) EXCEPT
                          !.query = update]
         /\ UNCHANGED <<budgets, buckets>>

\* DELETE /transactions/{transaction_id} (routers/transactions.py 66-73).
TransactionsDelete(id) ==
    IF id \notin DOMAIN transactions
    THEN Answered("delete", "transaction", id, 404)
    ELSE /\ DeleteTransaction(id)
         /\ reply' = Reply("delete", "transaction", id, 204)
         /\ UNCHANGED <<budgets, buckets>>

\* POST /budgets/ (routers/budgets.py 11-17); the store issues the id.
BudgetsPost(monthly_limit) ==
    \E id \in BudgetIds :
        /\ CreateBudget(id, monthly_limit)
        /\ reply' = Reply("create", "budget", id, 201)
        /\ UNCHANGED <<accounts, transactions, buckets, ext, sync, lastClean>>

\* GET /budgets/{budget_id} (routers/budgets.py 29-35).
BudgetsGet(id) ==
    Answered("read", "budget", id, IF id \in DOMAIN budgets THEN 200 ELSE 404)

\* PUT /budgets/{budget_id} (routers/budgets.py 37-47).
BudgetsPut(id, monthly_limit) ==
    IF id \notin DOMAIN budgets
    THEN Answered("update", "budget", id, 404)
    ELSE /\ UpdateBudget(id, monthly_limit)
         /\ reply' = [Reply("update", "budget", id, 200) EXCEPT
                          !.query = [monthly_limit |-> monthly_limit]]
         /\ UNCHANGED <<accounts, transactions, buckets, ext, sync, lastClean>>

\* DELETE /budgets/{budget_id} (routers/budgets.py 49-56).
BudgetsDelete(id) ==
    IF id \notin DOMAIN budgets
    THEN Answered("delete", "budget", id, 404)
    ELSE /\ DeleteBudget(id)
         /\ reply' = [Reply("delete", "budget", id, 204) EXCEPT
                          !.referred = {t \in DOMAIN transactions :
                                          transactions[t].category_id = id}]
         /\ UNCHANGED <<accounts, buckets, ext, sync, lastClean>>

\* POST /savings-buckets/ (routers/savings_buckets.py 11-17).
SavingsBucketsPost(target_amount) ==
    \E id \in BucketIds :
        /\ CreateSavingsBucket(id, target_amount)
        /\ reply' = Reply("create", "bucket", id, 201)
        /\ UNCHANGED <<accounts, transactions, budgets, ext, sync, lastClean>>

\* GET /savings-buckets/{bucket_id} (routers/savings_buckets.py 28-34).
SavingsBucketsGet(id) ==
    Answered("read", "bucket", id, IF id \in DOMAIN buckets THEN 200 ELSE 404)

\* PUT /savings-buckets/{bucket_id} (routers/savings_buckets.py 36-50).
SavingsBucketsPut(id, target_amount) ==
    IF id \notin DOMAIN buckets
    THEN Answered("update", "bucket", id, 404)
    ELSE /\ UpdateSavingsBucket(id, target_amount)
         /\ reply' = [Reply("update", "bucket", id, 200) EXCEPT
                          !.query = [target_amount |-> target_amount]]
         /\ UNCHANGED <<accounts, transactions, budgets, ext, sync, lastClean>>

\* DELETE /savings-buckets/{bucket_id} (routers/savings_buckets.py 52-59).
SavingsBucketsDelete(id) ==
    IF id \notin DOMAIN buckets
    THEN Answered("delete", "bucket", id, 404)
    ELSE /\ DeleteSavingsBucket(id)
         /\ reply' = Reply("delete", "bucket", id, 204)
         /\ UNCHANGED <<accounts, transactions, budgets, ext, sync, lastClean>>

\* The provider's data changes.
ExtChange(snapshots) ==
    /\ \E snapshot \in snapshots \ {ext} : ext' = snapshot
    /\ sync' = [r \in Runs |->
                  IF sync[r].pc = "idle" THEN sync[r]
                  ELSE [sync[r] EXCEPT !.ext_changed = TRUE]]
    /\ lastClean' = FALSE
    /\ UNCHANGED <<accounts, transactions>>

(* ---------------------------- specifications --------------------------- *)

\* Spec: one run at a time over one snapshot of the provider; between two
\* runs accounts and transactions are created, updated and deleted.
\* What a sync run and the writers on accounts and transactions leave alone.
Others == <<budgets, buckets, reply>>

SeqFetchAccounts == SyncFetchAccounts("r1") /\ UNCHANGED Others
SeqAccountsPhase == SyncAccountsPhase("r1") /\ UNCHANGED Others
SeqFetchTransactions == SyncFetchTransactions("r1") /\ UNCHANGED Others
SeqProcessTransaction == SyncProcessTransaction("r1") /\ UNCHANGED Others
SeqFinish == SyncFinish("r1") /\ UNCHANGED Others
SeqReturn == SyncReturn("r1") /\ UNCHANGED Others
SeqCreateAccount ==
    /\ Quiet
    /\ \E id \in AccountIds, b \in Balances : CreateAccount(id, b)
    /\ UNCHANGED Others
SeqUpdateAccount ==
    /\ Quiet
    /\ \E id \in AccountIds, b \in Balances : UpdateAccount(id, b)
    /\ UNCHANGED Others
SeqDeleteAccount ==
    /\ Quiet
    /\ \E id \in AccountIds : DeleteAccount(id)
    /\ UNCHANGED Others
SeqCreateTransaction ==
    /\ Quiet
    /\ \E id \in TxIds, a \in AccountIds : CreateTransaction(id, a, EpochDate)
    /\ UNCHANGED Others

Next ==
    \/ SeqFetchAccounts
    \/ SeqAccountsPhase
    \/ SeqFetchTransactions
    \/ SeqProcessTransaction
    \/ SeqFinish
    \/ SeqReturn
    \/ SeqCreateAccount
    \/ SeqUpdateAccount
    \/ SeqDeleteAccount
    \/ SeqCreateTransaction

Spec == Init /\ [][Next]_vars

\* SpecDrift: one run at a time; the provider's data changes between two
\* runs and between the two requests of a run (the requests of sync.py 34
\* and 83 are independent).
InitDrift == InitWith(SnapshotsOf(MaxDriftRecords))

DriftExtChange ==
    /\ \A r \in Runs : sync[r].pc \in {"idle", "transactions"}
    /\ ExtChange(SnapshotsOf(MaxDriftRecords))
    /\ UNCHANGED Others

NextDrift ==
    \/ SeqFetchAccounts
    \/ SeqAccountsPhase
    \/ SeqFetchTransactions
    \/ SeqProcessTransaction
    \/ SeqFinish
    \/ SeqReturn
    \/ DriftExtChange

SpecDrift == InitDrift /\ [][NextDrift]_vars

\* SpecConc: a run over one snapshot of the provider, and deletions of
\* accounts at any point of it.
InitConc == InitWith(SnapshotsOf(MaxConcRecords))

ConcDeleteAccount ==
    /\ \E id \in AccountIds : DeleteAccount(id)
    /\ UNCHANGED Others

NextConc ==
    \/ SeqFetchAccounts
    \/ SeqAccountsPhase
    \/ SeqFetchTransactions
    \/ SeqProcessTransaction
    \/ SeqFinish
    \/ SeqReturn
    \/ ConcDeleteAccount

SpecConc == InitConc /\ [][NextConc]_vars

\* SpecRace: two runs interleave, over one snapshot of the provider whose
\* transactions fill a commit batch.
InitRace == InitWith(RaceSnapshots)

RaceFetchAccounts ==
    /\ \E r \in Runs : SyncFetchAccounts(r)
    /\ UNCHANGED Others
RaceAccountsPhase ==
    /\ \E r \in Runs : SyncAccountsPhase(r)
    /\ UNCHANGED Others
RaceFetchTransactions ==
    /\ \E r \in Runs : SyncFetchTransactions(r)
    /\ UNCHANGED Others
RaceProcessTransaction ==
    /\ \E r \in Runs : SyncProcessTransaction(r)
    /\ UNCHANGED Others
RaceFinish ==
    /\ \E r \in Runs : SyncFinish(r)
    /\ UNCHANGED Others
RaceReturn ==
    /\ \E r \in Runs : SyncReturn(r)
    /\ UNCHANGED Others

NextRace ==
    \/ RaceFetchAccounts
    \/ RaceAccountsPhase
    \/ RaceFetchTransactions
    \/ RaceProcessTransaction
    \/ RaceFinish
    \/ RaceReturn

SpecRace == InitRace /\ [][NextRace]_vars

\* SpecCrud: requests to the routes of the four entities, one at a time,
\* and sync runs between them.
InitCrud == InitWith(CrudSnapshots)

CrudFetchAccounts ==
    /\ SyncFetchAccounts("r1")
    /\ reply' = NoReply
    /\ UNCHANGED <<budgets, buckets>>
CrudAccountsPost ==
    Quiet /\ \E id \in AccountIds : AccountsPost(id, 100)
CrudAccountsGet == Quiet /\ \E id \in AccountIds : AccountsGet(id)
CrudAccountsPut ==
    Quiet /\ \E id \in AccountIds, b \in Balances : AccountsPut(id, b)
CrudAccountsDelete == Quiet /\ \E id \in AccountIds : AccountsDelete(id)
CrudTransactionsPost ==
    Quiet /\ \E id \in TxIds, a \in AccountIds, c \in Categories :
                 TransactionsPost(id, a, EpochDate, c)
CrudTransactionsGet == Quiet /\ \E id \in TxIds : TransactionsGet(id)
CrudTransactionsPut ==
    Quiet /\ \E id \in TxIds, a \in AccountIds \cup {Null, Missing} :
                 TransactionsPut(id, [account_id |-> a,
                                      posted_date |-> NoDate,
                                      category |-> Missing])
CrudTransactionsDelete == Quiet /\ \E id \in TxIds : TransactionsDelete(id)
CrudAddCategorizedTransaction ==
    /\ Quiet
    /\ \E id \in TxIds, a \in AccountIds, c \in BudgetIds :
          AddCategorizedTransaction(id, a, c)
    /\ reply' = NoReply
    /\ UNCHANGED <<budgets, buckets>>
CrudBudgetsPost == Quiet /\ \E l \in Limits : BudgetsPost(l)
CrudBudgetsGet == Quiet /\ \E id \in BudgetIds : BudgetsGet(id)
CrudBudgetsPut ==
    Quiet /\ \E id \in BudgetIds, l \in Limits : BudgetsPut(id, l)
CrudBudgetsDelete == Quiet /\ \E id \in BudgetIds : BudgetsDelete(id)
CrudSavingsBucketsPost == Quiet /\ \E t \in Targets : SavingsBucketsPost(t)
CrudSavingsBucketsGet ==
    Quiet /\ \E id \in BucketIds : SavingsBucketsGet(id)
CrudSavingsBucketsPut ==
    Quiet /\ \E id \in BucketIds, t \in Targets : SavingsBucketsPut(id, t)
CrudSavingsBucketsDelete ==
    Quiet /\ \E id \in BucketIds : SavingsBucketsDelete(id)

NextCrud ==
    \/ CrudFetchAccounts
    \/ SeqAccountsPhase
    \/ SeqFetchTransactions
    \/ SeqProcessTransaction
    \/ SeqFinish
    \/ SeqReturn
    \/ CrudAccountsPost
    \/ CrudAccountsGet
    \/ CrudAccountsPut
    \/ CrudAccountsDelete
    \/ CrudTransactionsPost
    \/ CrudTransactionsGet
    \/ CrudTransactionsPut
    \/ CrudTransactionsDelete
    \/ CrudAddCategorizedTransaction
    \/ CrudBudgetsPost
    \/ CrudBudgetsGet
    \/ CrudBudgetsPut
    \/ CrudBudgetsDelete
    \/ CrudSavingsBucketsPost
    \/ CrudSavingsBucketsGet
    \/ CrudSavingsBucketsPut
    \/ CrudSavingsBucketsDelete

SpecCrud == InitCrud /\ [][NextCrud]_vars

\* SpecQuery: accounts and transactions are created and the transactions
\* are listed.  A listing writes nothing, so a listing that follows a
\* listing reaches no answer that a listing after the write before them
\* does not reach; only the latter are taken.
InitQuery == InitWith({<<>>})

QueryAccountsPost == Quiet /\ \E id \in AccountIds : AccountsPost(id, 100)
QueryTransactionsPost ==
    Quiet /\ \E id \in QueryTxIds, a \in AccountIds, d \in Dates :
                 TransactionsPost(id, a, d, Null)
QueryTransactionsList ==
    /\ reply.route # "list"
    /\ \E a \in {Null, NoId, "A1"},
          from \in {NoDate} \cup QueryDates,
          to \in {NoDate} \cup QueryDates,
          skip \in 0..MaxPage, limit \in 0..MaxPage :
             TransactionsList(a, from, to, skip, limit)

NextQuery ==
    \/ QueryAccountsPost
    \/ QueryTransactionsPost
    \/ QueryTransactionsList

SpecQuery == InitQuery /\ [][NextQuery]_vars

\* SpecWriter: a run over one snapshot of the provider, and accounts
\* created through POST /accounts/ by another client at any point of it.
InitWriter == InitWith(SnapshotsOf(MaxWriterRecords))

WriterAccountsPost ==
    /\ \E id \in AccountIds : CreateAccount(id, 100)
    /\ UNCHANGED Others

NextWriter ==
    \/ SeqFetchAccounts
    \/ SeqAccountsPhase
    \/ SeqFetchTransactions
    \/ SeqProcessTransaction
    \/ SeqFinish
    \/ SeqReturn
    \/ WriterAccountsPost

SpecWriter == InitWriter /\ [][NextWriter]_vars

\* SpecBatch: one run at a time over one snapshot of the provider that is
\* long enough for a batch commit; account A1 is created through
\* POST /accounts/ or by a run.
InitBatch == InitWith(BatchSnapshots)

BatchAccountsPost ==
    /\ Quiet
    /\ CreateAccount("A1", 100)
    /\ UNCHANGED Others

NextBatch ==
    \/ SeqFetchAccounts
    \/ SeqAccountsPhase
    \/ SeqFetchTransactions
    \/ SeqProcessTransaction
    \/ SeqFinish
    \/ SeqReturn
    \/ BatchAccountsPost

SpecBatch == InitBatch /\ [][NextBatch]_vars

\* SpecFields: rows of the four entities are created and updated, a
\* transaction with any selection of the fields of the model.
InitFields == InitWith({<<>>})

\* The bodies of PUT /transactions/{id}: each field is carried or not.
\* Transactions are created for account A1 and moved to account A2.
Updates ==
    [account_id : {"A2", Null, Missing},
     posted_date : {NoDate, 1},
     category : Categories \cup {Missing}]

FieldsAccountsPost == Quiet /\ \E id \in AccountIds : AccountsPost(id, 100)
FieldsAccountsPut ==
    Quiet /\ \E id \in AccountIds, b \in Balances : AccountsPut(id, b)
FieldsTransactionsPost ==
    Quiet /\ \E id \in TxIds : TransactionsPost(id, "A1", EpochDate, Null)
FieldsAddCategorizedTransaction ==
    /\ Quiet
    /\ \E id \in TxIds, c \in BudgetIds :
          AddCategorizedTransaction(id, "A1", c)
    /\ reply' = NoReply
    /\ UNCHANGED <<budgets, buckets>>
FieldsTransactionsPut ==
    Quiet /\ \E id \in TxIds, update \in Updates : TransactionsPut(id, update)
FieldsBudgetsPost == Quiet /\ \E l \in Limits : BudgetsPost(l)
FieldsBudgetsPut ==
    Quiet /\ \E id \in BudgetIds, l \in Limits : BudgetsPut(id, l)
FieldsSavingsBucketsPost == Quiet /\ \E t \in Targets : SavingsBucketsPost(t)
FieldsSavingsBucketsPut ==
    Quiet /\ \E id \in BucketIds, t \in Targets : SavingsBucketsPut(id, t)

NextFields ==
    \/ FieldsAccountsPost
    \/ FieldsAccountsPut
    \/ FieldsTransactionsPost
    \/ FieldsAddCategorizedTransaction
    \/ FieldsTransactionsPut
    \/ FieldsBudgetsPost
    \/ FieldsBudgetsPut
    \/ FieldsSavingsBucketsPost
    \/ FieldsSavingsBucketsPut

SpecFields == InitFields /\ [][NextFields]_vars

(* ------------------------------ properties ----------------------------- *)

Done(r) == sync[r].pc = "done"
Reported(r) == Done(r) /\ sync[r].status_code = 200
CountOf(table) == Cardinality(DOMAIN table)

\* A record the loop neither skips nor fails to build.
Eligible(s, tx) == ~SkipsTransaction(s, tx) /\ ~ConstructionRaises(tx)

\* C1: a run that follows a successful run, with the provider's data and the
\* store untouched since that run began, adds no account and no
\* transaction and leaves the store as it found it.
C1_Idempotence ==
    \A r \in Runs :
        (Reported(r) /\ sync[r].repeat /\ ~sync[r].ext_changed)
        => /\ sync[r].new_account_count = 0
           /\ sync[r].new_transaction_count = 0
           /\ Store = sync[r].before

\* C2: a well-formed new transaction of an account that this run added is
\* added by this run too.
C2_KnownAccountsIncludeNew ==
    \A r \in Runs : Reported(r) =>
        \A n \in DOMAIN sync[r].ext_transactions :
            LET tx == sync[r].ext_transactions[n]
            IN (/\ tx.id # NoId
                /\ ~ConstructionRaises(tx)
                /\ tx.id \notin DOMAIN sync[r].before.transactions
                /\ tx.account_id \in sync[r].new_account_ids)
               => /\ tx.id \in DOMAIN transactions
                  /\ sync[r].new_transaction_count > 0

\* C3: every row that was in the store when the run began is in the store,
\* with the same fields, when the run has ended, whatever its outcome.
C3_Additivity ==
    \A r \in Runs : Done(r) =>
        /\ \A a \in DOMAIN sync[r].before.accounts :
              a \in DOMAIN accounts /\ accounts[a] = sync[r].before.accounts[a]
        /\ \A t \in DOMAIN sync[r].before.transactions :
              /\ t \in DOMAIN transactions
              /\ transactions[t] = sync[r].before.transactions[t]

\* A run has ended with a report although the provider carried an account
\* of the store with another balance.
C3_Witness ==
    \E r \in Runs :
        /\ Reported(r) /\ ~sync[r].ext_changed
        /\ \E n \in DOMAIN ext :
              /\ ext[n].id \in DOMAIN sync[r].before.accounts
              /\ ext[n].balance # sync[r].before.accounts[ext[n].id].balance

\* C4: whenever rows are added to the transactions table, the account of
\* each of them is in the accounts table at that moment.
C4_ForeignKeySafety ==
    [][\A t \in DOMAIN transactions' \ DOMAIN transactions :
          transactions'[t].account_id \in DOMAIN accounts']_vars

\* A run has reported after adding a transaction of its snapshot.
C4_Witness ==
    \E r \in Runs :
        /\ Reported(r)
        /\ \E n \in sync[r].staged_at :
              LET tx == sync[r].ext_transactions[n]
              IN /\ tx.id \in DOMAIN transactions
                 /\ tx.id \notin sync[r].existing_tx_ids
                 /\ transactions[tx.id].account_id = tx.account_id

\* C5: the transactions table has grown by new_transactions_added, and
\* total_transactions is its size.
C5_TransactionCount ==
    \A r \in Runs : Reported(r) =>
        /\ CountOf(transactions) =
              CountOf(sync[r].before.transactions)
              + sync[r].new_transaction_count
        /\ sync[r].total_transactions = CountOf(transactions)

\* C6: the accounts table has grown by new_accounts_added, and
\* total_accounts is its size.
C6_AccountCount ==
    \A r \in Runs : Reported(r) =>
        /\ CountOf(accounts) =
              CountOf(sync[r].before.accounts) + sync[r].new_account_count
        /\ sync[r].total_accounts = CountOf(accounts)

\* A run has reported after adding one account and skipping another.
C6_Witness ==
    \E r \in Runs :
        /\ Reported(r)
        /\ sync[r].new_account_count > 0
        /\ sync[r].before.accounts # EmptyTable

\* The account of record n of the run was neither in the store when the run
\* began nor added by the run.
UnknownAccount(s, n) ==
    /\ s.ext_transactions[n].account_id \notin DOMAIN s.before.accounts
    /\ s.ext_transactions[n].account_id \notin s.new_account_ids

CountedAsSkipped(s, n) ==
    /\ n \in s.skipped_at
    /\ n \notin s.staged_at
    /\ s.skipped_transactions = Cardinality(s.skipped_at)
    /\ s.new_transaction_count = Cardinality(s.staged_at)

\* C7 as stated: a record of an unknown account is counted once as skipped,
\* not as added, and the store holds no row with its id after the run.
C7_SkipAccounting ==
    \A r \in Runs : Done(r) =>
        \A n \in DOMAIN sync[r].ext_transactions :
            UnknownAccount(sync[r], n)
            => /\ CountedAsSkipped(sync[r], n)
               /\ sync[r].ext_transactions[n].id \notin DOMAIN transactions

\* C7 amended: a record of an unknown account is counted once as skipped,
\* not as added, and the run adds no row for it: a row with its id is in
\* the store after the run only if it was there before the run or was
\* added for another record that carries the same id.
C7_SkipAccountingAmended ==
    \A r \in Runs : Done(r) =>
        \A n \in DOMAIN sync[r].ext_transactions :
            LET s == sync[r]
                tx == s.ext_transactions[n]
            IN UnknownAccount(s, n)
               => /\ CountedAsSkipped(s, n)
                  /\ tx.id \in DOMAIN transactions
                     => \/ tx.id \in DOMAIN s.before.transactions
                        \/ \E m \in s.staged_at \ {n} :
                              s.ext_transactions[m].id = tx.id

\* A run has reported after meeting a new, well-formed record whose account
\* is unknown.
C7_Witness ==
    \E r \in Runs :
        /\ Reported(r)
        /\ \E n \in DOMAIN sync[r].ext_transactions :
              LET tx == sync[r].ext_transactions[n]
              IN /\ UnknownAccount(sync[r], n)
                 /\ tx.id # NoId
                 /\ tx.id \notin sync[r].existing_tx_ids
                 /\ ~ConstructionRaises(tx)
                 /\ sync[r].skipped_transactions = 1

\* C8: a run that ends 400 has written nothing.
C8_SourceUnavailableWritesNothing ==
    \A r \in Runs :
        (Done(r) /\ sync[r].status_code = 400) => Store = sync[r].before

\* C9: a run whose accounts request fails answers 400 and has written
\* nothing.
C9_AccountsFetchFailure ==
    \A r \in Runs :
        (Done(r) /\ sync[r].failed_at = "get_accounts")
        => sync[r].status_code = 400 /\ Store = sync[r].before

\* The accounts request of a run has failed while the provider held an
\* account that the store lacks.
C9_Witness ==
    \E r \in Runs :
        /\ Done(r) /\ sync[r].failed_at = "get_accounts"
        /\ \E n \in DOMAIN ext :
              ext[n].id # NoId /\ ext[n].id \notin DOMAIN accounts

\* C10: when building a record has failed, every other eligible record of
\* the run is in the store when the run reports.
C10_ErrorIsolation ==
    \A r \in Runs : (Reported(r) /\ sync[r].raised_at # {}) =>
        \A n \in DOMAIN sync[r].ext_transactions \ sync[r].raised_at :
            Eligible(sync[r], sync[r].ext_transactions[n])
            => sync[r].ext_transactions[n].id \in DOMAIN transactions

\* C11: a run whose accounts commit meets a uniqueness violation answers
\* 400.
C11_AccountsConflictIsBadRequest ==
    \A r \in Runs :
        (Done(r) /\ sync[r].failed_at = "accounts_commit")
        => sync[r].status_code = 400

\* C12: a run that ends on a failure of the provider client, in its
\* constructor or in one of its two requests, answers 400.
C12_ClientFailureIsBadRequest ==
    \A r \in Runs :
        (Done(r) /\ sync[r].failed_at
                       \in {"client", "get_accounts", "get_transactions"})
        => sync[r].status_code = 400

\* C13: a run one of whose commits met a uniqueness violation, in the
\* accounts commit, in a batch commit or in the final commit, does not end
\* with a report.
C13_ConflictIsReported ==
    \A r \in Runs :
        (Done(r) /\ (\/ sync[r].failed_at
                           \in {"accounts_commit", "final_commit"}
                     \/ sync[r].conflict_at # {}))
        => sync[r].status_code # 200

\* The table of an entity.
TableOf(entity) ==
    CASE entity = "account" -> accounts
      [] entity = "transaction" -> transactions
      [] entity = "budget" -> budgets
      [] entity = "bucket" -> buckets

\* The same after the step.
TableAfter(entity) ==
    CASE entity = "account" -> accounts'
      [] entity = "transaction" -> transactions'
      [] entity = "budget" -> budgets'
      [] entity = "bucket" -> buckets'

Tables == <<accounts, transactions, budgets, buckets>>

\* The rows of `table` other than row `id`.
Without(table, id) == [k \in DOMAIN table \ {id} |-> table[k]]

\* C14: every transaction of the store belongs to an account of the store.
C14_EveryTransactionHasItsAccount ==
    \A t \in DOMAIN transactions :
        transactions[t].account_id \in DOMAIN accounts

\* C15: a DELETE of an account that answers 204 removes that account and
\* the transactions of that account, and nothing else.
C15_DeleteAccountCascades ==
    [][(reply'.route = "delete" /\ reply'.entity = "account"
        /\ reply'.status = 204)
       => /\ reply'.id \in DOMAIN accounts
          /\ accounts' = Without(accounts, reply'.id)
          /\ transactions' =
                [t \in {u \in DOMAIN transactions :
                           transactions[u].account_id # reply'.id}
                   |-> transactions[t]]
          /\ UNCHANGED <<budgets, buckets>>]_vars

\* An account that had transactions has been deleted, and a transaction of
\* another account is in the store.
C15_Witness ==
    /\ reply.route = "delete" /\ reply.entity = "account"
    /\ reply.status = 204
    /\ reply.referred # {}
    /\ \E t \in DOMAIN transactions :
          transactions[t].account_id \in DOMAIN accounts

\* C16: a DELETE of a budget category that answers 204 removes the
\* category, sets to NULL the category_id of the transactions that
\* referred to it and changes nothing else.
C16_DeleteBudgetNullifies ==
    [][(reply'.route = "delete" /\ reply'.entity = "budget"
        /\ reply'.status = 204)
       => /\ reply'.id \in DOMAIN budgets
          /\ budgets' = Without(budgets, reply'.id)
          /\ DOMAIN transactions' = DOMAIN transactions
          /\ \A t \in DOMAIN transactions :
                transactions'[t] =
                    IF transactions[t].category_id = reply'.id
                    THEN [transactions[t] EXCEPT !.category_id = NullId]
                    ELSE transactions[t]
          /\ UNCHANGED <<accounts, buckets>>]_vars

\* A category that a transaction referred to has been deleted, and the
\* transaction is in the store.
C16_Witness ==
    /\ reply.route = "delete" /\ reply.entity = "budget"
    /\ reply.status = 204
    /\ \E t \in reply.referred :
          t \in DOMAIN transactions /\ transactions[t].category_id = NullId

\* C18: GET, PUT and DELETE answer 404 exactly for an id that the table of
\* the entity lacks, and then write nothing; after a DELETE that answers
\* 204 the table lacks the id, and a GET answers 200 only for an id of the
\* table.
C18_NotFound ==
    [][(reply'.route \in {"read", "update", "delete"})
       => /\ (reply'.id \notin DOMAIN TableOf(reply'.entity))
             <=> (reply'.status = 404)
          /\ (reply'.status = 404) => UNCHANGED Tables
          /\ (reply'.route = "delete" /\ reply'.status = 204)
             => reply'.id \notin DOMAIN TableAfter(reply'.entity)
          /\ (reply'.route = "read")
             => /\ reply'.status \in {200, 404}
                /\ UNCHANGED Tables]_vars

\* A GET of a savings bucket has answered 404 while the other tables hold
\* rows.
C18_Witness ==
    /\ reply.route = "read" /\ reply.entity = "bucket"
    /\ reply.status = 404
    /\ accounts # EmptyTable /\ transactions # EmptyTable
    /\ budgets # EmptyTable

\* C19: POST /accounts/ answers 400 for an id of the table and writes
\* nothing; for any other id it answers 201 and the store gains that one
\* account.
C19_CreateAccount ==
    [][(reply'.route = "create" /\ reply'.entity = "account")
       => IF reply'.id \in DOMAIN accounts
          THEN reply'.status = 400 /\ UNCHANGED Tables
          ELSE /\ reply'.status = 201
               /\ DOMAIN accounts' = DOMAIN accounts \cup {reply'.id}
               /\ \A a \in DOMAIN accounts : accounts'[a] = accounts[a]
               /\ UNCHANGED <<transactions, budgets, buckets>>]_vars

\* POST /accounts/ has answered 400 for an account whose balance is not the
\* one a request carries.
C19_Witness ==
    /\ reply.route = "create" /\ reply.entity = "account"
    /\ reply.status = 400
    /\ accounts[reply.id].balance = 250

\* The transactions a listing has to consider when `supplied` tells which
\* account_id counts as a filter; a date that is not None is a filter.
Matching(q, supplied(_)) ==
    {t \in DOMAIN transactions :
        /\ supplied(q.account_id)
           => transactions[t].account_id = q.account_id
        /\ q.start_date # NoDate
           => transactions[t].posted_date >= q.start_date
        /\ q.end_date # NoDate
           => transactions[t].posted_date <= q.end_date}

\* `body` is the part [skip, skip + limit) of some arrangement of `ids`
\* by posted_date, the latest first.
IsPageOf(body, ids, q) ==
    \E p \in Arrangements(ids) :
        /\ \A m, n \in DOMAIN p :
              m < n => transactions[p[m]].posted_date
                       >= transactions[p[n]].posted_date
        /\ Len(body) = Cardinality({k \in DOMAIN p :
                                       q.skip < k /\ k <= q.skip + q.limit})
        /\ \A k \in DOMAIN body : body[k] = p[q.skip + k]

NotNone(value) == value # Null
NotEmpty(value) == value \notin {Null, NoId}

ConstructionErrors(r) == sync[r].raised_at \ sync[r].conflict_at

StagedAccounts(s) ==
    Keys(AccountsLoop([staged |-> <<>>, count |-> 0], s.ext_accounts,
                      s.existing_account_ids).staged)

\* C21 as stated: after a run whose accounts commit failed, none of the
\* accounts it staged is in the store, the run has ended with an error and
\* has fetched and staged no transaction.
C21_AccountsPhaseAtomic ==
    \A r \in Runs :
        (Done(r) /\ sync[r].failed_at = "accounts_commit")
        => /\ \A a \in StagedAccounts(sync[r]) : a \notin DOMAIN accounts
           /\ sync[r].status_code >= 400
           /\ sync[r].ext_transactions = <<>>
           /\ sync[r].staged_at = {}

\* C21 amended: the accounts phase ends in one step, which either adds
\* every staged account to the store or fails; a failing commit writes
\* nothing, the run ends with an error and takes no further step but its
\* return, so that it fetches, stages and inserts no transaction.  (A
\* staged account is then in the store only if another writer put it
\* there.)
C21_AccountsPhaseAtomicAmended ==
    [][\A r \in Runs :
          /\ (sync[r].pc = "accounts" /\ sync'[r].pc # "accounts")
             => IF sync'[r].failed_at = "accounts_commit"
                THEN /\ accounts' = accounts
                     /\ transactions' = transactions
                     /\ sync'[r].pc = "done"
                     /\ sync'[r].status_code >= 400
                     /\ sync'[r].ext_transactions = <<>>
                     /\ sync'[r].staged_at = {}
                     /\ sync'[r].session = <<>>
                ELSE /\ sync'[r].pc = "transactions"
                     /\ DOMAIN accounts' =
                           DOMAIN accounts \cup StagedAccounts(sync[r])
                     /\ \A a \in DOMAIN accounts : accounts'[a] = accounts[a]
          /\ (sync[r].failed_at = "accounts_commit")
             => sync'[r] \in {sync[r], IdleRun}]_vars

\* The accounts commit of a run has failed on one of two staged accounts,
\* which another client had created; the other one is not in the store.
C21_Witness ==
    \E r \in Runs :
        /\ Done(r) /\ sync[r].failed_at = "accounts_commit"
        /\ StagedAccounts(sync[r]) = {"A1", "A2"}
        /\ DOMAIN accounts = {"A2"}

\* C22: when a failure in the transactions phase has ended a run with 500,
\* every account that the run's accounts phase committed and every
\* transaction that one of its batch commits wrote is in the store.
C22_EarlierCommitsRemain ==
    \A r \in Runs :
        (Done(r) /\ sync[r].status_code = 500
         /\ sync[r].failed_at = "final_commit")
        => /\ sync[r].new_account_ids \subseteq DOMAIN accounts
           /\ sync[r].batch_written \subseteq DOMAIN transactions
           /\ sync[r].session = <<>>

\* The final commit of a run has failed after the run had committed an
\* account and a batch of transactions.
C22_Witness ==
    \E r \in Runs :
        /\ Done(r) /\ sync[r].status_code = 500
        /\ sync[r].failed_at = "final_commit"
        /\ sync[r].new_account_ids = {"A2"}
        /\ Cardinality(sync[r].batch_written) = BatchSize
        /\ sync[r].new_transaction_count > BatchSize

\* C23: when a run reports, every record that it staged is in the store.
C23_NoStagedRecordLeft ==
    \A r \in Runs : Reported(r) =>
        \A n \in sync[r].staged_at :
            sync[r].ext_transactions[n].id \in DOMAIN transactions

\* C24: every commit issued inside the transaction loop writes exactly
\* BatchSize transactions, and a run never holds more than BatchSize
\* staged transactions that are not committed.
C24_FixedSizeBatches ==
    [][\A r \in Runs :
          /\ (sync[r].pc = "loop" /\ sync'[r].pc = "loop"
              /\ transactions' # transactions)
             => Cardinality(DOMAIN transactions' \ DOMAIN transactions)
                = BatchSize
          /\ Len(sync'[r].session) <= BatchSize]_vars

\* The order of the points of a run: from `from` the run goes to `to`.
PhaseOrder ==
    {<<"idle", "accounts">>, <<"idle", "done">>,
     <<"accounts", "transactions">>, <<"accounts", "done">>,
     <<"transactions", "loop">>, <<"transactions", "done">>,
     <<"loop", "loop">>, <<"loop", "done">>,
     <<"done", "idle">>}

\* C25: the steps of a run follow one another in the order accounts fetch,
\* accounts commit, transactions fetch, loop with its batch commits, final
\* commit; the run writes accounts only in its accounts phase, which
\* leaves every staged account in the store, and it holds, stages and
\* writes transactions only after that phase.
C25_PhaseOrdering ==
    [][\A r \in Runs :
          /\ (sync'[r] # sync[r])
             => /\ <<sync[r].pc, sync'[r].pc>> \in PhaseOrder
                /\ (accounts' # accounts) => sync[r].pc = "accounts"
                /\ (transactions' # transactions) => sync[r].pc = "loop"
          /\ (sync[r].pc = "accounts" /\ sync'[r].pc = "transactions")
             => /\ StagedAccounts(sync[r]) \subseteq DOMAIN accounts'
                /\ sync'[r].new_account_ids = StagedAccounts(sync[r])
          /\ (sync'[r].pc \in {"idle", "accounts"})
             => /\ sync'[r].ext_transactions = <<>>
                /\ sync'[r].session = <<>>
                /\ sync'[r].staged_at = {}
                /\ sync'[r].i = 0]_vars

\* A run has reported after committing an account, then a batch of
\* transactions, then the rest of them.
C25_Witness ==
    \E r \in Runs :
        /\ Reported(r)
        /\ sync[r].new_account_ids = {"A2"}
        /\ Cardinality(sync[r].batch_written) = BatchSize
        /\ sync[r].new_transaction_count = BatchSize + 1
        /\ CountOf(transactions) = BatchSize + 1

\* The row of `entity` that an update which carries the fields `q` is to
\* leave in place of `row`: a field that is carried takes its value, any
\* other field stays.  (`category` is a field of the update and of no
\* column; category_id is not a field of the update.)
IsUpdated(entity, row, after, q) ==
    CASE entity = "account" -> after = [row EXCEPT !.balance = q.balance]
      [] entity = "budget" ->
            after = [row EXCEPT !.monthly_limit = q.monthly_limit]
      [] entity = "bucket" ->
            after = [row EXCEPT !.target_amount = q.target_amount]
      [] entity = "transaction" ->
            /\ after.account_id =
                  IF q.account_id = Missing THEN row.account_id
                  ELSE q.account_id
            /\ after.posted_date =
                  IF q.posted_date = NoDate THEN row.posted_date
                  ELSE q.posted_date
            /\ (q.category = Missing) => after.category_id = row.category_id

\* C26: an update of a row that exists overwrites the fields it carries
\* with the values it carries and leaves the other fields of the row, the
\* other rows and the other tables as they were; an update of an id that
\* the table lacks changes nothing.  It is stated of the updates whose
\* account_id, if they carry one, is null or an account of the store.
C26_UpdateOverwritesSupplied ==
    [][(/\ reply'.route = "update"
        /\ (reply'.entity = "transaction" /\ reply'.query # <<>>)
           => reply'.query.account_id
                 \in DOMAIN accounts \cup {Missing, Null})
       => LET id == reply'.id
              table == TableOf(reply'.entity)
              after == TableAfter(reply'.entity)
          IN IF id \notin DOMAIN table
             THEN UNCHANGED Tables
             ELSE /\ DOMAIN after = DOMAIN table
                  /\ \A k \in DOMAIN table \ {id} : after[k] = table[k]
                  /\ \A e \in {"account", "transaction", "budget", "bucket"}
                            \ {reply'.entity} :
                        TableAfter(e) = TableOf(e)
                  /\ IsUpdated(reply'.entity, table[id], after[id],
                               reply'.query)]_vars

\* C27: when a run reports, new_transactions_added and
\* skipped_transactions add up to the number of records that the
\* transactions fetch returned, and no record is counted in both.
C27_EveryRecordCountedOnce ==
    \A r \in Runs : Reported(r) =>
        /\ sync[r].new_transaction_count + sync[r].skipped_transactions
           = Len(sync[r].ext_transactions)
        /\ sync[r].staged_at \cap sync[r].skipped_at = {}

\* C28: a run whose days_back is below 1 ends with an error and leaves the
\* store as it found it.
C28_DaysBackRejectedWithoutWrite ==
    \A r \in Runs :
        (Done(r) /\ sync[r].days_back < 1)
        => /\ sync[r].status_code >= 400
           /\ Store = sync[r].before

\* Records m and n of run s carry one id, which is new, for an account
\* that the run knows, and both are well-formed.
RepeatedNewId(s, m, n) ==
    /\ m < n
    /\ s.ext_transactions[m].id = s.ext_transactions[n].id
    /\ Eligible(s, s.ext_transactions[m])
    /\ Eligible(s, s.ext_transactions[n])

\* C29: a run whose transaction list carries a new id twice ends with a
\* report, has staged the id once and counted it once, and the id and the
\* id of every other eligible record are in the store.
C29_RepeatedTransactionId ==
    \A r \in Runs :
        (/\ Done(r) /\ sync[r].i > Len(sync[r].ext_transactions)
         /\ \E m, n \in DOMAIN sync[r].ext_transactions :
                RepeatedNewId(sync[r], m, n))
        => LET s == sync[r]
               txs == s.ext_transactions
               ids == {txs[k].id : k \in {j \in DOMAIN txs :
                                            Eligible(s, txs[j])}}
           IN /\ s.status_code = 200
              /\ ids \subseteq DOMAIN transactions
              /\ s.new_transaction_count = Cardinality(ids)
              /\ \A t \in ids :
                    Cardinality({k \in s.staged_at : txs[k].id = t}) = 1

\* C30: a run whose account list carries a new id twice commits its
\* accounts, has staged the id once and counted it once, and the account
\* is in the store.
C30_RepeatedAccountId ==
    \A r \in Runs :
        (/\ sync[r].pc \in {"transactions", "loop", "done"}
         /\ sync[r].failed_at \notin {"client", "get_accounts"}
         /\ \E m, n \in DOMAIN ext :
                /\ m < n /\ ext[m].id = ext[n].id /\ ext[m].id # NoId
                /\ ext[m].id \notin DOMAIN sync[r].before.accounts)
        => /\ sync[r].failed_at # "accounts_commit"
           /\ \A n \in DOMAIN ext :
                 (ext[n].id # NoId
                  /\ ext[n].id \notin DOMAIN sync[r].before.accounts)
                 => /\ ext[n].id \in DOMAIN accounts
                    /\ ext[n].id \in sync[r].new_account_ids
           /\ sync[r].new_account_count
              = Cardinality(sync[r].new_account_ids)

====
